---- MODULE Spec2Model ----
(***************************************************************************)
(* Model of the cooperative task scheduler of src/src/scheduler.ts (the    *)
(* variant with BATCH, lines 1-268) and of the effect adapters of the      *)
(* example programs (src/unnamed/part_000, part_001).                      *)
(*                                                                         *)
(* _Scheduler_step is a synchronous, re-entrant function: a Binding whose  *)
(* start calls `done` at once, and the batch coordinator's callbacks, call *)
(* _Scheduler_step again from inside it.  It is modelled by the recursive  *)
(* operator Step over a record S of the whole heap, so that one action     *)
(* (StartTask, Complete) is one whole call from the host's event loop.     *)
(***************************************************************************)
EXTENDS Integers, Sequences, FiniteSets, TLC

\* ------------------------------------------------------------ bounds
MaxVal == 1        \* result and failure values are the numbers 0..MaxVal
MaxMembers == 3    \* members of a batch
MaxMail == 3   \* messages delivered to a process
MaxDepth == 3      \* andThen/onError wrappers around a terminal task

\* ------------------------------------------------------------ values
\* The values carried by Succeed/Fail (`any` in the source): numbers, the
\* results array of a batch, the `null` that err starts as, and the holes of
\* Array(n).
IntV(n) == [k |-> "int", n |-> n, arr |-> <<>>]
ArrV(s) == [k |-> "arr", n |-> 0, arr |-> s]
Undef == [k |-> "undef", n |-> 0, arr |-> <<>>]
Null == [k |-> "null", n |-> 0, arr |-> <<>>]
Vals == {IntV(n) : n \in 0..MaxVal}

\* `if (err)`, `!err`: JavaScript truthiness of a value.
Truthy(v) == (v.k = "int" /\ v.n # 0) \/ v.k = "arr"

\* ------------------------------------------------------------ task algebra
Succeed(v) == [tag |-> "SUCCEED", value |-> v]
Fail(v) == [tag |-> "FAIL", value |-> v]
AndThen(t, cb) == [tag |-> "AND_THEN", task |-> t, callback |-> cb]
OnError(t, cb) == [tag |-> "ON_ERROR", task |-> t, callback |-> cb]
Batch(ts) == [tag |-> "BATCH", tasks |-> ts]
Recieve(cb) == [tag |-> "RECIEVE", callback |-> cb]
\* binding(callback) allocates a task object; `obj` is that object's identity
\* (its `kill` field is the one thing the engine mutates on a task).  obj = 0
\* is an object made fresh by the coordinator and referenced from one root only.
Binding(obj, cb) == [tag |-> "BINDING", obj |-> obj, callback |-> cb]

\* ------------------------------------------------------------ effect adapters
\* The start function of a Binding made by an adapter:
\*   "sync"  calls done(result) inside start (consoleLog), no abort;
\*   "timer" calls done later and its thunk clears the timer (sleep);
\*   "async" calls done later and its thunk is a no-op (cancellation is best effort).
Modes == {"sync", "timer", "async"}
Effect(obj, mode) == Binding(obj, [fn |-> "effect", mode |-> mode])
SyncEffect(obj, result) == Binding(obj, [fn |-> "effect", mode |-> "sync", result |-> result])

\* What a binding's completion callback is called with ("most often a SUCCEED / FAIL").
Outcomes == {Succeed(v) : v \in Vals} \cup {Fail(v) : v \in Vals}

\* ------------------------------------------------------------ continuations
\* A continuation is a closure; the model names it by a descriptor and Call
\* applies it.  The user's continuations are inputs of the model.
UserKs == {"kWrap", "kFail"}
\* The continuations given to recieve: kRecv waits for the next message, kTake
\* succeeds with the message, kDrop fails with it.
RecvKs == {"kRecv", "kTake", "kDrop"}
K(name) == [fn |-> name]

\* const handleSuccess = (res) => binding(() => {...}): the task it returns.
handleSuccess(j, i, res) == Binding(0, [fn |-> "reportSuccess", join |-> j, i |-> i, res |-> res])
\* const handleError = (e) => binding(() => {...}): the task it returns.
handleError(j, e) == Binding(0, [fn |-> "reportError", join |-> j, e |-> e])

\* The functions given to map2: add2 = (a, b) => a + b, and a subtraction,
\* which tells its arguments apart.
Fns == {"add2", "sub"}
Apply2(f, a, b) == IF f = "add2" THEN a + b ELSE a - b

\* Mutant of Map2Result: the two results handed to f in the other order.
Map2Swapped(f, v) == Succeed(IntV(Apply2(f, v.arr[2].n, v.arr[1].n)))

\* ([a, b]) => succeed(f(a, b))
Map2Result(f, v) == Succeed(IntV(Apply2(f, v.arr[1].n, v.arr[2].n)))

Call(cb, v) ==
  CASE cb.fn = "kWrap" -> Succeed(ArrV(<<v>>))
    [] cb.fn = "kFail" -> Fail(v)
    [] cb.fn = "kRecv" -> Recieve(cb)
    [] cb.fn = "kTake" -> Succeed(v)
    [] cb.fn = "kDrop" -> Fail(v)
    [] cb.fn = "map2" -> Map2Result(cb.f, v)
    [] cb.fn = "map2A" -> AndThen(cb.taskB, [fn |-> "map2B", f |-> cb.f, a |-> v])
    [] cb.fn = "map2B" -> Succeed(IntV(Apply2(cb.f, cb.a.n, v.n)))
    [] cb.fn = "handleSuccess" -> handleSuccess(cb.join, cb.i, v)
    [] cb.fn = "handleError" -> handleError(cb.join, v)

\* ------------------------------------------------------------ state
VARIABLES
  scenario,  \* the task handed to startTask (the input)
  guid,      \* let guid: number = 0
  procs,     \* every Process made by newProcess; procs[pid].id = pid - 1
  joins,     \* the closure state of each executed BATCH case (results, procs, count, err)
  starts,    \* one entry per invocation of an adapter's start: its done/abort closures
  killOf,    \* killOf[obj]: the start whose thunk is stored in that task object's `kill`, 0 if unset
  calls,     \* log of the user continuations invoked, in order
  fired,     \* log of the starts whose completion callback was invoked, in order
  delivered, \* log of the messages appended to the mailbox of process 1, in order
  maxDepth,  \* the most activations of _Scheduler_step on the call stack at one time
  returns    \* what each returning call of _Scheduler_step left its process in

vars == <<scenario, guid, procs, joins, starts, killOf, calls, fired, delivered,
          maxDepth, returns>>

\* Binding task objects the scenarios allocate: one per member of the outer
\* batch and one per member of a nested batch.
Objs == 1..(2 * MaxMembers + 2)

\* function newProcess(task)
newProcess(task, id) == [id |-> id, root |-> task, stack |-> <<>>, mailbox |-> <<>>]

\* The heap as one value, threaded through the interpreter.
Heap == [guid |-> guid, procs |-> procs, joins |-> joins, starts |-> starts,
         killOf |-> killOf, calls |-> calls, fired |-> fired,
         depth |-> 0, maxDepth |-> maxDepth, returns |-> returns]

\* ------------------------------------------------------------ the engine
\* Mutant of Unwind: the skipping loop left out, the top frame fires whatever it expects.
UnwindNoSkip(stack, tag) == stack

\* Mutant of Unwind: `if` for `while`, at most one frame is skipped.
UnwindOne(stack, tag) ==
  IF stack # <<>> /\ Head(stack).tag # tag THEN Tail(stack) ELSE stack

\* while (proc.stack && proc.stack.tag !== proc.root.tag) proc.stack = proc.stack.rest
RECURSIVE Unwind(_, _)
Unwind(stack, tag) ==
  IF stack # <<>> /\ Head(stack).tag # tag THEN Unwind(Tail(stack), tag) ELSE stack

\* Mutant of FrameTag: the two branches of the conditional exchanged.
FrameTagSwapped(tag) == IF tag = "AND_THEN" THEN "FAIL" ELSE "SUCCEED"

\* tag: proc.root.tag === "AND_THEN" ? "SUCCEED" : "FAIL"
FrameTag(tag) == IF tag = "AND_THEN" THEN "SUCCEED" ELSE "FAIL"

\* The invocation of a continuation leaves a trace when it is one of the user's.
Invoke(S, cb, v) ==
  IF cb.fn \in UserKs \cup RecvKs THEN [S EXCEPT !.calls = Append(@, [fn |-> cb.fn, arg |-> v])] ELSE S

\* task.kill && task.kill() for a task object whose kill holds the thunk of start n:
\* the thunk runs once more; `late` notes a run after that start's done has fired.
RunThunk(S, n) ==
  [S EXCEPT !.starts[n].kills = @ + 1,
            !.starts[n].late = @ \/ S.starts[n].fired > 0]

\* function kill(task).  A coordinator's own binding (obj = 0) holds the no-op
\* thunk `() => {}` or nothing; running it changes nothing.
RECURSIVE kill(_, _), killEach(_, _, _)
kill(S, task) ==
  IF task.tag = "BINDING"
  THEN IF task.obj # 0 /\ S.killOf[task.obj] # 0 THEN RunThunk(S, S.killOf[task.obj]) ELSE S
  ELSE IF task.tag = "BATCH" THEN killEach(S, task.tasks, 1)
  ELSE S
\* task.tasks.forEach(kill)
killEach(S, tasks, i) ==
  IF i > Len(tasks) THEN S ELSE killEach(kill(S, tasks[i]), tasks, i + 1)

\* procs.forEach(p => kill(p.root)) of handleError
RECURSIVE killProcs(_, _, _)
killProcs(S, j, i) ==
  IF i > Len(S.joins[j].procs) THEN S
  ELSE killProcs(kill(S, S.procs[S.joins[j].procs[i]].root), j, i + 1)

\* Mutant of RecordResult: the value stored at the next free slot (results.push(res)).
RecordResultByArrival(join, i, res) ==
  [join EXCEPT !.results[join.count + 1] = res, !.count = @ + 1]

\* results[i] = res; count++
RecordResult(join, i, res) ==
  [join EXCEPT !.results[i] = res, !.count = @ + 1]

\* Mutant of AllReported: the comparison one past the last member.
AllReportedLate(join) == join.count > Len(join.results)

\* if (count === results.length)
AllReported(join) == join.count = Len(join.results)

\* onError(andThen(task, handleSuccess), handleError): the root of member i's process
MemberRoot(task, j, i) ==
  OnError(AndThen(task, [fn |-> "handleSuccess", join |-> j, i |-> i]),
          [fn |-> "handleError", join |-> j])

\* The closure variables of one executed BATCH case, and two logs: `resumes`,
\* each `proc.root = ...; _Scheduler_step(proc)` the coordinator performs on its
\* parent, and `pendingAtError`, the starts that were awaiting their completion
\* callback each time handleError recorded an error.
NewJoin(pid, tasks, first) ==
  [proc |-> pid, tasks |-> tasks, results |-> [i \in 1..Len(tasks) |-> Undef],
   procs |-> [i \in 1..Len(tasks) |-> first + i], count |-> 0, err |-> Null,
   resumes |-> <<>>, pendingAtError |-> <<>>]

\* The starts whose completion callback has not been invoked.
Pending(S) == {n \in 1..Len(S.starts) : S.starts[n].fired = 0}

\* An adapter's start has been called for the Binding at the root of process pid.
NewStart(obj, pid, mode) ==
  [obj |-> obj, pid |-> pid, mode |-> mode, fired |-> 0, outcome |-> <<>>,
   kills |-> 0, late |-> FALSE]

\* Mutant of Fire: the process resumes on a fresh stack.
FireDropStack(S, n, newRoot) ==
  [S EXCEPT !.starts[n].fired = @ + 1, !.starts[n].outcome = Append(@, newRoot),
            !.procs[S.starts[n].pid].root = newRoot,
            !.procs[S.starts[n].pid].stack = <<>>,
            !.fired = Append(@, n)]

\* The completion callback of start n: function(newRoot) { proc.root = newRoot; ... }
Fire(S, n, newRoot) ==
  [S EXCEPT !.starts[n].fired = @ + 1, !.starts[n].outcome = Append(@, newRoot),
            !.procs[S.starts[n].pid].root = newRoot,
            !.fired = Append(@, n)]

\* Mutant of Shift: the newest message taken (mailbox.pop()).
ShiftLast(mailbox) ==
  [msg |-> mailbox[Len(mailbox)], rest |-> SubSeq(mailbox, 1, Len(mailbox) - 1)]

\* proc.mailbox.shift(): the message it returns and the queue it leaves.
Shift(mailbox) == [msg |-> Head(mailbox), rest |-> Tail(mailbox)]

\* A call of _Scheduler_step begins: one more activation on the call stack.
Enter(S) ==
  [S EXCEPT !.depth = @ + 1,
            !.maxDepth = IF S.depth + 1 > @ THEN S.depth + 1 ELSE @]

\* What a process looks like from outside: the kind of its root, whether its
\* stack and mailbox are empty, for a Binding whether a start of it awaits its
\* completion callback (a coordinator's own binding never completes), for a
\* Batch whether it has spawned children of which one has yet to report.
Observe(S, pid) ==
  LET proc == S.procs[pid]
      root == proc.root
  IN [tag |-> root.tag,
      stackEmpty |-> proc.stack = <<>>,
      mailEmpty |-> proc.mailbox = <<>>,
      pending |-> /\ root.tag = "BINDING"
                  /\ \/ root.obj = 0
                     \/ \E n \in 1..Len(S.starts) :
                          /\ S.starts[n].pid = pid
                          /\ S.starts[n].obj = root.obj
                          /\ S.starts[n].fired = 0,
      awaiting |-> /\ root.tag = "BATCH"
                   /\ \E j \in 1..Len(S.joins) :
                        /\ S.joins[j].proc = pid
                        /\ S.joins[j].tasks = root.tasks
                        /\ \E i \in 1..Len(S.joins[j].procs) :
                             LET r == S.procs[S.joins[j].procs[i]].root IN
                             ~(r.tag = "BINDING" /\ r.obj = 0 /\ r.callback.join = j)]

\* A call of _Scheduler_step returns.
Leave(S, pid) ==
  [S EXCEPT !.depth = @ - 1, !.returns = @ \cup {Observe(S, pid)}]

RECURSIVE Step(_, _), Loop(_, _), StepEach(_, _, _), Resume(_, _, _)

\* Mutant of AfterStart: the outer call goes round its loop again when the
\* root is no longer the Binding it started.
AfterStartLoop(S, pid, binding, n) ==
  IF S.procs[pid].root # binding
  THEN Loop([S EXCEPT !.killOf[binding.obj] = n], pid)
  ELSE [S EXCEPT !.killOf[binding.obj] = n]

\* proc.root.kill = <what start returned>; return: the thunk is stored on the
\* task object that was the root when start was called, and the call ends.
AfterStart(S, pid, binding, n) == [S EXCEPT !.killOf[binding.obj] = n]

\* Mutant of Continue: each reduction made by a call of its own instead of a
\* turn of the loop.
ContinueByCall(S, pid) == Step(S, pid)

\* `break` out of the switch: the next turn of while (proc.root)
Continue(S, pid) == Loop(S, pid)

\* function _Scheduler_step(proc)
Step(S, pid) == Leave(Loop(Enter(S), pid), pid)

\* while (proc.root) { switch (proc.root.tag) ... }
Loop(S, pid) ==
  LET proc == S.procs[pid]
      root == proc.root
  IN
  CASE root.tag \in {"SUCCEED", "FAIL"} ->
         LET stack == Unwind(proc.stack, root.tag) IN
         IF stack = <<>> THEN [S EXCEPT !.procs[pid].stack = stack]
         ELSE Continue([Invoke(S, Head(stack).callback, root.value) EXCEPT
                      !.procs[pid].root = Call(Head(stack).callback, root.value),
                      !.procs[pid].stack = Tail(stack)], pid)
    [] root.tag = "BINDING" /\ root.callback.fn = "effect" ->
         \* proc.root.kill = proc.root.callback(done): the task object is taken
         \* first, start runs (and with it a synchronous done), then kill is stored.
         LET n == Len(S.starts) + 1
             S1 == [S EXCEPT !.starts = Append(@, NewStart(root.obj, pid, root.callback.mode))]
             S2 == IF root.callback.mode = "sync"
                   THEN Step(Fire(S1, n, root.callback.result), pid)
                   ELSE S1
         IN AfterStart(S2, pid, root, n)
    [] root.tag = "BINDING" /\ root.callback.fn = "reportSuccess" ->
         LET j == root.callback.join
             S1 == [S EXCEPT !.joins[j] = RecordResult(@, root.callback.i, root.callback.res)]
         IN IF AllReported(S1.joins[j])
            THEN Resume(S1, j, Succeed(ArrV(S1.joins[j].results)))
            ELSE S1
    [] root.tag = "BINDING" /\ root.callback.fn = "reportError" ->
         LET j == root.callback.join IN
         IF Truthy(S.joins[j].err) THEN S
         ELSE Resume([killProcs(S, j, 1) EXCEPT
                        !.joins[j].err = root.callback.e,
                        !.joins[j].pendingAtError = Append(@, Pending(S))],
                     j, Fail(root.callback.e))
    [] root.tag = "RECIEVE" ->
         IF proc.mailbox = <<>> THEN S
         ELSE LET m == Shift(proc.mailbox) IN
              Continue([Invoke(S, root.callback, m.msg) EXCEPT
                          !.procs[pid].root = Call(root.callback, m.msg),
                          !.procs[pid].mailbox = m.rest], pid)
    [] root.tag = "BATCH" ->
         IF Len(root.tasks) = 0 THEN S
         ELSE LET j == Len(S.joins) + 1
                  n == Len(root.tasks)
                  S1 == [S EXCEPT
                           !.joins = Append(@, NewJoin(pid, root.tasks, Len(S.procs))),
                           !.procs = @ \o [i \in 1..n |->
                                             newProcess(MemberRoot(root.tasks[i], j, i),
                                                        S.guid + i - 1)],
                           !.guid = @ + n]
              IN StepEach(S1, j, 1)
    [] root.tag \in {"AND_THEN", "ON_ERROR"} ->
         Continue([S EXCEPT !.procs[pid].stack =
                              <<[tag |-> FrameTag(root.tag), callback |-> root.callback]>> \o @,
                            !.procs[pid].root = root.task], pid)

\* procs.forEach(p => !err && _Scheduler_step(p))
StepEach(S, j, i) ==
  IF i > Len(S.joins[j].procs) THEN S
  ELSE StepEach(IF ~Truthy(S.joins[j].err) THEN Step(S, S.joins[j].procs[i]) ELSE S, j, i + 1)

\* proc.root = succeed(results) / fail(e); _Scheduler_step(proc)  (proc: the parent)
Resume(S, j, task) ==
  Step([S EXCEPT !.procs[S.joins[j].proc].root = task,
                 !.joins[j].resumes = Append(@, task)], S.joins[j].proc)

\* ------------------------------------------------------------ inputs
\* The task at the core of a chain of andThen/onError wrappers.
RECURSIVE Leaf(_)
Leaf(t) == IF t.tag \in {"AND_THEN", "ON_ERROR"} THEN Leaf(t.task) ELSE t

\* The frames a chain leaves on the stack when its core is reached, top first.
RECURSIVE Frames(_)
Frames(t) ==
  IF t.tag \in {"AND_THEN", "ON_ERROR"}
  THEN Frames(t.task) \o <<[tag |-> IF t.tag = "AND_THEN" THEN "SUCCEED" ELSE "FAIL",
                            callback |-> t.callback]>>
  ELSE <<>>

Terminals == {Succeed(v) : v \in Vals} \cup {Fail(v) : v \in Vals}

\* A terminal task or an effect under up to d andThen/onError wrappers.
RECURSIVE Chains(_)
Chains(d) ==
  IF d = 0
  THEN Terminals \cup {Effect(1, m) : m \in {"timer", "async"}}
                 \cup {SyncEffect(1, o) : o \in Outcomes}
  ELSE Chains(d - 1)
         \cup {AndThen(t, K(k)) : t \in Chains(d - 1), k \in UserKs}
         \cup {OnError(t, K(k)) : t \in Chains(d - 1), k \in UserKs}

\* What member i of a batch may be: a terminal task or an effect of its own.
Members(i) == Terminals \cup {Effect(i, m) : m \in {"timer", "async"}}

\* const logResult = (task) => onError(andThen(task, ...), ...)
logResult(task) == OnError(AndThen(task, K("kWrap")), K("kFail"))

MemberLists(n) == {ms \in [1..n -> UNION {Members(i) : i \in 1..n}] :
                     \A i \in 1..n : ms[i] \in Members(i)}

\* Members for the cancellation scenarios: an effect, alone or under andThen
\* (sleepyAdd's shape), on task object o.
Leaves(o) == {Effect(o, m) : m \in {"timer", "async"}}
               \cup {AndThen(Effect(o, m), K("kWrap")) : m \in {"timer", "async"}}

\* A member that is itself a batch (doubleSleepyAdd nests sleepyAdd), on task
\* objects of its own.
NestedBatches == {Batch(<<x, y>>) : x \in Leaves(MaxMembers + 1), y \in Leaves(MaxMembers + 2)}

\* The member whose failure cancels the others: it fails when stepped, or later.
Failers == {Effect(3, "async")} \cup {Fail(v) : v \in Vals}

\* Two members, each a task of its own, that are pending when a third one fails.
CancelTasks ==
  {logResult(Batch(<<a, b, c>>)) :
     a \in Leaves(1) \cup NestedBatches, b \in Leaves(2), c \in Failers}

\* The same, the second member being the very task object of the first
\* (doubleSleepyAdd passes sleepyAdd twice).
SharedTasks ==
  {logResult(Batch(<<a, a, c>>)) : a \in Leaves(1), c \in Failers}

\* A process that waits for a message, bare or under logResult's two frames.
MailTasks == {Recieve(K(k)) : k \in RecvKs} \cup {logResult(Recieve(K(k))) : k \in RecvKs}

\* export function map2(f, taskA, taskB), on the batch
map2(f, taskA, taskB) == AndThen(Batch(<<taskA, taskB>>), [fn |-> "map2", f |-> f])

\* The same function where the file defines it again, without the batch:
\* andThen(taskA, (a) => andThen(taskB, (b) => succeed(f(a, b))))
map2Seq(f, taskA, taskB) == AndThen(taskA, [fn |-> "map2A", f |-> f, taskB |-> taskB])

\* map2 over two effects, each a task object of its own.
Map2Tasks ==
  {map2(f, Effect(1, mA), Effect(2, mB)) : f \in Fns, mA, mB \in {"timer", "async"}}
    \cup {map2Seq(f, Effect(1, mA), Effect(2, mB)) : f \in Fns, mA, mB \in {"timer", "async"}}

\* Batches of one or more members each of which can succeed: a succeed, or an
\* effect of its own.
LiveTasks ==
  {logResult(Batch(ms)) :
     ms \in {l \in UNION {MemberLists(n) : n \in 1..MaxMembers} :
               \A i \in 1..Len(l) : l[i].tag # "FAIL"}}

\* Batches whose members succeed as soon as they are stepped (a succeed, or an
\* effect that calls done inside start, as consoleLog does), or are timers.
FlatMembers(i) ==
  {Succeed(v) : v \in Vals} \cup {SyncEffect(i, Succeed(v)) : v \in Vals}
    \cup {Effect(i, "timer")}
FlatTasks ==
  {logResult(Batch(ms)) :
     ms \in UNION {{l \in [1..n -> UNION {FlatMembers(i) : i \in 1..n}] :
                      \A i \in 1..n : l[i] \in FlatMembers(i)} : n \in 1..MaxMembers}}

\* Tasks with one effect that completes later: under one wrapper, or as one
\* member of a batch (alone, under a wrapper, or inside a nested batch) whose
\* other members are terminal tasks; [] is a failure value that is truthy.
Others == {Succeed(IntV(0)), Fail(IntV(0)), Fail(ArrV(<<>>))}
Later(o) ==
  LET x == {Effect(o, m) : m \in {"timer", "async"}} IN
  x \cup {AndThen(e, K("kWrap")) : e \in x} \cup {OnError(e, K("kWrap")) : e \in x}
    \cup {Batch(<<e, t>>) : e \in x, t \in Others}
    \cup {Batch(<<t, e>>) : e \in x, t \in Others}
ReentrantTasks ==
  {t \in Chains(1) : Leaf(t).tag = "BINDING" /\ Leaf(t).callback.mode # "sync"}
    \cup {logResult(Batch([i \in 1..n |-> IF i = at THEN x ELSE ts[i]])) :
            n \in 1..MaxMembers, at \in 1..MaxMembers, x \in Later(1),
            ts \in [1..MaxMembers -> Others]}

SeqTasks == Chains(MaxDepth)
BatchTasks == {logResult(Batch(ms)) : ms \in UNION {MemberLists(n) : n \in 0..MaxMembers}}

\* ------------------------------------------------------------ actions
InitHeap ==
  /\ guid = 0
  /\ procs = <<>>
  /\ joins = <<>>
  /\ starts = <<>>
  /\ killOf = [o \in Objs |-> 0]
  /\ calls = <<>>
  /\ fired = <<>>
  /\ delivered = <<>>
  /\ maxDepth = 0
  /\ returns = {}

Commit(S) ==
  /\ guid' = S.guid
  /\ procs' = S.procs
  /\ joins' = S.joins
  /\ starts' = S.starts
  /\ killOf' = S.killOf
  /\ calls' = S.calls
  /\ fired' = S.fired
  /\ maxDepth' = S.maxDepth
  /\ returns' = S.returns
  /\ UNCHANGED <<scenario, delivered>>

\* export function startTask(task) { _Scheduler_step(newProcess(task)) }
StartTask ==
  /\ procs = <<>>
  /\ Commit(Step([Heap EXCEPT !.procs = <<newProcess(scenario, guid)>>, !.guid = @ + 1], 1))

\* A pending effect completes: the host calls the completion callback of start n
\* with newRoot.  A cleared timer never fires; a no-op abort does not stop it.
CanFire(n) ==
  /\ starts[n].fired = 0
  /\ starts[n].mode = "timer" => starts[n].kills = 0

Complete ==
  \E n \in 1..Len(starts), newRoot \in Outcomes :
    /\ CanFire(n)
    /\ Commit(Step(Fire(Heap, n, newRoot), starts[n].pid))

Next == StartTask \/ Complete

\* deliver(process, message): the message is appended to the tail of the mailbox.
Deliver ==
  \E msg \in Vals :
    /\ procs # <<>>
    /\ Len(delivered) < MaxMail
    /\ procs' = [procs EXCEPT ![1].mailbox = Append(@, msg)]
    /\ delivered' = Append(delivered, msg)
    /\ UNCHANGED <<scenario, guid, joins, starts, killOf, calls, fired, maxDepth, returns>>

\* The component that delivers calls _Scheduler_step on the process again.
Restep ==
  /\ procs # <<>>
  /\ Commit(Step(Heap, 1))

NextMail == StartTask \/ Deliver \/ Restep

InitSeq == scenario \in SeqTasks /\ InitHeap
InitBatch == scenario \in BatchTasks /\ InitHeap
InitCancel == scenario \in CancelTasks /\ InitHeap
InitShared == scenario \in SharedTasks /\ InitHeap
InitMail == scenario \in MailTasks /\ InitHeap
InitMap2 == scenario \in Map2Tasks /\ InitHeap
InitLive == scenario \in LiveTasks /\ InitHeap
InitFlat == scenario \in FlatTasks /\ InitHeap
InitReentrant == scenario \in ReentrantTasks /\ InitHeap
Init == InitSeq \/ InitBatch \/ InitCancel \/ InitShared

SpecSeq == InitSeq /\ [][Next]_vars
SpecBatch == InitBatch /\ [][Next]_vars
SpecCancel == InitCancel /\ [][Next]_vars
SpecShared == InitShared /\ [][Next]_vars
SpecMail == InitMail /\ [][NextMail]_vars
SpecMap2 == InitMap2 /\ [][Next]_vars
SpecFlat == InitFlat /\ [][Next]_vars
SpecReentrant == InitReentrant /\ [][Next]_vars
\* The program calls startTask, and the host runs every timer that is not
\* cleared: weak fairness of the two actions, WF_vars(StartTask) and
\* WF_vars(Complete), with ENABLED written out as the action's guard.
StartTaskEnabled == procs = <<>>
CompleteEnabled == \E n \in 1..Len(starts) : CanFire(n)
SpecLive ==
  /\ InitLive /\ [][Next]_vars
  /\ ([]<>(~StartTaskEnabled) \/ []<><<StartTask>>_vars)
  /\ ([]<>(~CompleteEnabled) \/ []<><<Complete>>_vars)
Spec == Init /\ [][Next]_vars

\* ------------------------------------------------------------ observations
Started == procs # <<>>
Joins == 1..Len(joins)
MembersOf(j) == 1..Len(joins[j].tasks)
ChildPid(j, i) == joins[j].procs[i]
StartsOf(pid) == {n \in 1..Len(starts) : starts[n].pid = pid}
Min(set) == CHOOSE x \in set : \A y \in set : x <= y

\* Member i of join j has reported: its process sits at one of the coordinator's bindings.
Reported(j, i) ==
  LET root == procs[ChildPid(j, i)].root IN
  root.tag = "BINDING" /\ root.obj = 0 /\ root.callback.join = j

\* The coordinator of join j has recorded a first error and resumed its parent with it.
Finalized(j) == \E k \in 1..Len(joins[j].resumes) : joins[j].resumes[k].tag = "FAIL"
FailedOnce(j) == Len(joins[j].resumes) = 1 /\ joins[j].resumes[1].tag = "FAIL"

\* The values member i of join j (a terminal task or an effect) succeeded with.
SucceededWith(j, i) ==
  LET t == joins[j].tasks[i] IN
  IF t.tag = "SUCCEED" THEN {t.value}
  ELSE {starts[n].outcome[1].value :
          n \in {m \in StartsOf(ChildPid(j, i)) :
                   starts[m].fired > 0 /\ starts[m].outcome[1].tag = "SUCCEED"}}

\* The members of join j that fail when stepped, and the positions in `fired`
\* of the completions by which a member's effect failed.
SyncFails(j) == {i \in MembersOf(j) : joins[j].tasks[i].tag = "FAIL"}
AsyncFails(j) ==
  {k \in 1..Len(fired) :
     /\ \E i \in MembersOf(j) : starts[fired[k]].pid = ChildPid(j, i)
     /\ starts[fired[k]].outcome[1].tag = "FAIL"}
\* The failure value of the member that reported a failure first: members that
\* fail when stepped report in the spawning pass, before any effect completes.
FirstFailure(j) ==
  IF SyncFails(j) # {} THEN joins[j].tasks[Min(SyncFails(j))].value
  ELSE starts[fired[Min(AsyncFails(j))]].outcome[1].value

\* ------------------------------------------------------------ claims

\* C1: for every batch with one or more members, whatever the members' outcomes
\* and the order of their completions, the coordinator resumes the parent
\* exactly once: at most once ever, and once when every member has reported.
C1_ParentResumedExactlyOnce ==
  \A j \in Joins :
    /\ Len(joins[j].resumes) <= 1
    /\ (\A i \in MembersOf(j) : Reported(j, i)) => Len(joins[j].resumes) = 1

\* C2: stepping a process whose root is batch([]) resumes it at once with
\* Succeed of an empty result, so the continuation around the batch is invoked
\* and the process does not stay at the empty batch.
C2_EmptyBatchResumes ==
  (Started /\ scenario = logResult(Batch(<<>>))) =>
    /\ procs[1].root = Succeed(ArrV(<<ArrV(<<>>)>>))
    /\ calls = <<[fn |-> "kWrap", arg |-> ArrV(<<>>)]>>

\* C3: when all members of a batch have succeeded, in whatever order they
\* completed, the parent was resumed with Succeed(results), results as long as
\* tasks and results[i] the value member i succeeded with.
C3_ResultsInInputOrder ==
  \A j \in Joins :
    (\A i \in MembersOf(j) : SucceededWith(j, i) # {}) =>
      joins[j].resumes =
        <<Succeed(ArrV([i \in MembersOf(j) |-> CHOOSE v \in SucceededWith(j, i) : TRUE]))>>

\* Three effects complete last-first with different values and the parent holds
\* the results in input order.
C3_Witness ==
  /\ Len(joins) = 1
  /\ Len(joins[1].tasks) = 3
  /\ Len(fired) = 3 /\ fired[1] = 3 /\ fired[3] = 1
  /\ joins[1].resumes = <<Succeed(ArrV(<<IntV(0), IntV(1), IntV(1)>>))>>

\* C4: once a member has failed the parent has been resumed with Fail(e), e
\* the failure value of the member that reported first, and no failure
\* reported later is ever the value the parent is resumed with.
C4_FirstFailureWins ==
  \A j \in Joins :
    (SyncFails(j) \cup AsyncFails(j) # {}) =>
      /\ joins[j].resumes # <<>>
      /\ \A k \in 1..Len(joins[j].resumes) :
           joins[j].resumes[k].tag = "FAIL" =>
             joins[j].resumes[k].value = FirstFailure(j)

\* C5: in a batch where one member has failed, the thunk returned by the start
\* of every other member's pending Binding has been invoked exactly once.
C5_SiblingThunksInvokedOnce ==
  \A j \in Joins :
    FailedOnce(j) =>
      \A i \in MembersOf(j) :
        \A n \in StartsOf(ChildPid(j, i)) \cap joins[j].pendingAtError[1] :
          starts[n].kills = 1

\* C6: once a coordinator has recorded its first error, a member success or
\* failure reported afterwards leaves its result slots, completed-count and
\* recorded error unchanged, invokes no cancellation thunk and does not touch
\* the parent's root.
C6_FinalizedDiscardsReports ==
  [][\A j \in Joins :
       Finalized(j) =>
         /\ joins'[j].results = joins[j].results
         /\ joins'[j].count = joins[j].count
         /\ joins'[j].err = joins[j].err
         /\ \A n \in 1..Len(starts) : starts'[n].kills = starts[n].kills
         /\ procs'[joins[j].proc].root = procs[joins[j].proc].root]_vars

\* C7: when a batch fails while a member's process sits at a nested Batch, the
\* thunk of every pending Binding of the nested batch's members (plain or under
\* andThen) has been invoked exactly once.
C7_NestedLeavesCancelledOnce ==
  \A j \in Joins :
    FailedOnce(j) =>
      \A i \in MembersOf(j) :
        procs[ChildPid(j, i)].root.tag = "BATCH" =>
          \A jj \in Joins :
            joins[jj].proc = ChildPid(j, i) =>
              \A ii \in MembersOf(jj) :
                \A n \in StartsOf(ChildPid(jj, ii)) \cap joins[j].pendingAtError[1] :
                  starts[n].kills = 1

\* C8: the thunk obtained from one start of a Binding is invoked at most once,
\* and never after that start's completion callback has fired.
C8_ThunkAtMostOncePendingOnly ==
  \A n \in 1..Len(starts) : starts[n].kills <= 1 /\ ~starts[n].late

\* C9: stepping andThen(succeed(v), k) makes the root k(v), k invoked once with
\* v; stepping andThen(fail(e), k) leaves the process finished with root
\* fail(e), k never invoked.
C9_AndThenReduction ==
  \A v \in Vals, k \in UserKs :
    /\ (Started /\ scenario = AndThen(Succeed(v), K(k))) =>
         /\ procs[1].root = Call(K(k), v)
         /\ calls = <<[fn |-> k, arg |-> v]>>
    /\ (Started /\ scenario = AndThen(Fail(v), K(k))) =>
         /\ procs[1].root = Fail(v) /\ procs[1].stack = <<>>
         /\ calls = <<>>

C9_Witness ==
  /\ scenario = AndThen(Succeed(IntV(1)), K("kWrap"))
  /\ Started
  /\ procs[1].root = Succeed(ArrV(<<IntV(1)>>))
  /\ Len(calls) = 1

\* C10: stepping onError(fail(e), k) makes the root k(e), k invoked once with
\* e; stepping onError(succeed(v), k) leaves the process finished with root
\* succeed(v), k never invoked.
C10_OnErrorReduction ==
  \A v \in Vals, k \in UserKs :
    /\ (Started /\ scenario = OnError(Fail(v), K(k))) =>
         /\ procs[1].root = Call(K(k), v)
         /\ calls = <<[fn |-> k, arg |-> v]>>
    /\ (Started /\ scenario = OnError(Succeed(v), K(k))) =>
         /\ procs[1].root = Succeed(v) /\ procs[1].stack = <<>>
         /\ calls = <<>>

C10_Witness ==
  /\ scenario = OnError(Fail(IntV(0)), K("kWrap"))
  /\ Started
  /\ procs[1].root = Succeed(ArrV(<<IntV(0)>>))
  /\ Len(calls) = 1

\* ------------------------------------------------------------ sequencing, by structure
\* What a chain whose core ends in the terminal task r comes to, read off the
\* task's structure from the inside out: a wrapper whose kind matches the
\* terminal reaching it applies its continuation, any other is passed by.
RECURSIVE Denote(_, _)
Denote(t, r) ==
  IF t.tag \notin {"AND_THEN", "ON_ERROR"} THEN [root |-> r, calls |-> <<>>]
  ELSE LET d == Denote(t.task, r) IN
       IF \/ t.tag = "AND_THEN" /\ d.root.tag = "SUCCEED"
          \/ t.tag = "ON_ERROR" /\ d.root.tag = "FAIL"
       THEN [root |-> Call(t.callback, d.root.value),
             calls |-> Append(d.calls, [fn |-> t.callback.fn, arg |-> d.root.value])]
       ELSE d

\* C11: when a terminal value propagates, the frames that do not expect it are
\* discarded and their continuations never invoked, the first matching frame's
\* continuation is applied to the value, and the frames below stay in order:
\* a chain around a terminal task ends where its structure says, with exactly
\* the continuations its structure says, in that order.
C11_UnwindToFirstMatch ==
  (Started /\ Leaf(scenario).tag \in {"SUCCEED", "FAIL"}) =>
    /\ procs[1].root = Denote(scenario, Leaf(scenario)).root
    /\ procs[1].stack = <<>>
    /\ calls = Denote(scenario, Leaf(scenario)).calls

\* Two frames are skipped: only k2 runs, on e.
C11_Witness ==
  /\ scenario = OnError(AndThen(AndThen(Fail(IntV(1)), K("kWrap")), K("kFail")), K("kWrap"))
  /\ Started
  /\ calls = <<[fn |-> "kWrap", arg |-> IntV(1)]>>
  /\ procs[1].root = Succeed(ArrV(<<IntV(1)>>))

\* ------------------------------------------------------------ the mailbox
\* The messages the recieve continuations were invoked with, in order.
Consumed ==
  LET recvCalls == SelectSeq(calls, LAMBDA c : c.fn \in RecvKs)
  IN [i \in 1..Len(recvCalls) |-> recvCalls[i].arg]

\* C12: a process at recieve(k) with an empty mailbox is left as it is by a
\* step, k not invoked; once messages are appended and the process is stepped
\* again every Receive reduction takes the oldest queued message and applies k
\* to it: the messages k was invoked with, followed by those still queued, are
\* the messages delivered, in delivery order, each consumed once.
C12_ReceiveFifo ==
  /\ [](Started =>
         LET k == Leaf(scenario).callback.fn IN
         /\ Consumed \o procs[1].mailbox = delivered
         /\ Consumed = <<>> =>
              (procs[1].root = Leaf(scenario) /\ procs[1].stack = Frames(scenario)
                 /\ calls = <<>>)
         /\ k = "kRecv" =>
              (procs[1].root = Leaf(scenario) /\ procs[1].stack = Frames(scenario))
         /\ (k # "kRecv" /\ Consumed # <<>>) =>
              /\ Len(Consumed) = 1
              /\ procs[1].root = Denote(scenario, Call(K(k), delivered[1])).root
              /\ procs[1].stack = <<>>)
  /\ [][(Started /\ delivered' = delivered) =>
          /\ procs[1].mailbox = <<>> => UNCHANGED <<procs, calls>>
          /\ (procs[1].mailbox # <<>> /\ procs[1].root.tag = "RECIEVE") =>
               /\ Len(calls') > Len(calls)
               /\ calls'[Len(calls) + 1] =
                    [fn |-> procs[1].root.callback.fn, arg |-> Head(procs[1].mailbox)]]_vars

\* Two messages queued, then consumed oldest first by one step.
C12_Witness ==
  /\ scenario = Recieve(K("kRecv"))
  /\ delivered = <<IntV(1), IntV(0)>>
  /\ procs[1].mailbox = <<>>
  /\ calls = <<[fn |-> "kRecv", arg |-> IntV(1)], [fn |-> "kRecv", arg |-> IntV(0)]>>

\* ------------------------------------------------------------ map2
\* The value the effect on task object o succeeded with, if it did.
SucceededObj(o) ==
  {starts[n].outcome[1].value :
     n \in {m \in 1..Len(starts) :
              starts[m].obj = o /\ starts[m].fired > 0 /\ starts[m].outcome[1].tag = "SUCCEED"}}

\* C13: map2(f, taskA, taskB) over two bindings that complete with succeed(a)
\* and succeed(b) ends at root succeed(f(a, b)), a first and b second,
\* whichever binding completes first.
C13_Map2InArgumentOrder ==
  \A f \in Fns, mA, mB \in {"timer", "async"}, a \in SucceededObj(1), b \in SucceededObj(2) :
    scenario \in {map2(f, Effect(1, mA), Effect(2, mB)), map2Seq(f, Effect(1, mA), Effect(2, mB))} =>
      /\ procs[1].root = Succeed(IntV(Apply2(f, a.n, b.n)))
      /\ procs[1].stack = <<>>

\* taskB completes first; 1 - 0 = 1.
C13_Witness ==
  /\ scenario = map2("sub", Effect(1, "timer"), Effect(2, "timer"))
  /\ Len(fired) = 2 /\ starts[fired[1]].obj = 2 /\ starts[fired[2]].obj = 1
  /\ SucceededObj(1) = {IntV(1)} /\ SucceededObj(2) = {IntV(0)}
  /\ procs[1].root = Succeed(IntV(1))

\* ------------------------------------------------------------ completion
\* C14: a process suspended at a Binding keeps its stack, and when the
\* completion callback is invoked with a task T it goes on with root T against
\* exactly that stack; so andThen(binding, k) whose binding completes with
\* fail(x) ends at fail(x) with an empty stack and k never invoked.
C14_CompletionKeepsStack ==
  (Started /\ Leaf(scenario).tag = "BINDING" /\ Leaf(scenario).callback.mode # "sync") =>
    /\ Len(starts) = 1
    /\ starts[1].fired = 0 =>
         /\ procs[1].root = Leaf(scenario)
         /\ procs[1].stack = Frames(scenario)
         /\ calls = <<>>
    /\ starts[1].fired > 0 =>
         /\ procs[1].root = Denote(scenario, starts[1].outcome[1]).root
         /\ procs[1].stack = <<>>
         /\ calls = Denote(scenario, starts[1].outcome[1]).calls
         /\ \A k \in UserKs :
              (scenario = AndThen(Leaf(scenario), K(k)) /\ starts[1].outcome[1].tag = "FAIL") =>
                (procs[1].root = starts[1].outcome[1] /\ calls = <<>>)

\* andThen(binding, k), the binding completed with fail(1).
C14_Witness ==
  /\ scenario = AndThen(Effect(1, "timer"), K("kWrap"))
  /\ Len(starts) = 1 /\ starts[1].outcome = <<Fail(IntV(1))>>
  /\ procs[1].root = Fail(IntV(1)) /\ procs[1].stack = <<>> /\ calls = <<>>

\* ------------------------------------------------------------ liveness of the join
\* No completion callback has been called with a failure.
NoMemberFailed ==
  \A n \in 1..Len(starts) : starts[n].fired > 0 => starts[n].outcome[1].tag = "SUCCEED"

\* The coordinator of the batch has resumed the parent with its results, and
\* the parent has gone on from there.
JoinResumed ==
  /\ Len(joins) = 1
  /\ joins[1].resumes = <<Succeed(ArrV(joins[1].results))>>
  /\ \A i \in MembersOf(1) : SucceededWith(1, i) = {joins[1].results[i]}
  /\ procs[1].root = Succeed(ArrV(<<ArrV(joins[1].results)>>))

\* C15: for a batch of one or more members, if every member completes and all
\* of them succeed, the parent is eventually resumed with Succeed(results);
\* and it is resumed when the completed-count reaches the member count, not
\* before: a success resumption is there exactly when the count is full.
C15_JoinLiveness ==
  /\ []NoMemberFailed => <>JoinResumed
  /\ [](\A j \in Joins :
          (joins[j].count = Len(joins[j].tasks))
            <=> (\E k \in 1..Len(joins[j].resumes) : joins[j].resumes[k].tag = "SUCCEED"))

\* Three effects, completed last to first, and the parent resumed.
C15_Witness ==
  /\ JoinResumed
  /\ Len(joins[1].tasks) = MaxMembers
  /\ Len(fired) = MaxMembers
  /\ \A k \in 1..MaxMembers : starts[fired[k]].pid = ChildPid(1, MaxMembers + 1 - k)

\* ------------------------------------------------------------ nesting of step
\* Member i of the scenario's batch succeeds when stepped, and the value it succeeds with.
Immediate(t) == t.tag = "SUCCEED" \/ (t.tag = "BINDING" /\ t.callback.mode = "sync")
ImmediateValue(t) == IF t.tag = "SUCCEED" THEN t.value ELSE t.callback.result.value

\* C16: for a batch of N members that succeed as soon as they are stepped, the
\* calls of step nested inside one another never exceed four (the parent's, a
\* member's, the member's synchronous completion, the parent's resumption),
\* whatever N is, and the parent is resumed with the N results in member order.
C16_NestingIndependentOfN ==
  LET ms == Leaf(scenario).tasks IN
  (Started /\ Leaf(scenario).tag = "BATCH" /\ \A i \in 1..Len(ms) : Immediate(ms[i])) =>
    /\ maxDepth <= 4
    /\ Len(joins) = 1
    /\ joins[1].resumes = <<Succeed(ArrV([i \in 1..Len(ms) |-> ImmediateValue(ms[i])]))>>
    /\ procs[1].root = Succeed(ArrV(<<ArrV([i \in 1..Len(ms) |-> ImmediateValue(ms[i])])>>))

\* The largest batch, every member completing inside its start: four nested
\* calls, as for a batch of one.
C16_Witness ==
  /\ Started
  /\ Leaf(scenario).tag = "BATCH"
  /\ Len(Leaf(scenario).tasks) = MaxMembers
  /\ \A i \in 1..MaxMembers : Leaf(scenario).tasks[i] = SyncEffect(i, Succeed(IntV(i % 2)))
  /\ maxDepth = 4
  /\ Len(joins[1].resumes) = 1

\* ------------------------------------------------------------ where step returns
\* The four states a returning call of step may leave its process in.
Finished(r) == r.tag \in {"SUCCEED", "FAIL"} /\ r.stackEmpty
AwaitingCompletion(r) == r.tag = "BINDING" /\ r.pending
AwaitingMessage(r) == r.tag = "RECIEVE" /\ r.mailEmpty
AwaitingChildren(r) == r.tag = "BATCH" /\ r.awaiting

\* C17: whenever a call of step on a process returns, the process is finished
\* (a terminal root and an empty stack), or at a Binding that has been started
\* and has not completed, or at a Receive with an empty mailbox, or at a Batch
\* whose children have been spawned and of which one has yet to report.
C17_StepReturnsSuspendedOrFinished ==
  \A r \in returns :
    Finished(r) \/ AwaitingCompletion(r) \/ AwaitingMessage(r) \/ AwaitingChildren(r)

\* ------------------------------------------------------------ completion inside start
\* The task with every effect that completes later replaced by one that calls
\* done(T) inside its start.
RECURSIVE Syncify(_, _)
Syncify(t, T) ==
  CASE t.tag \in {"AND_THEN", "ON_ERROR"} -> [t EXCEPT !.task = Syncify(@, T)]
    [] t.tag = "BATCH" -> [t EXCEPT !.tasks = [i \in 1..Len(@) |-> Syncify(@[i], T)]]
    [] t.tag = "BINDING" /\ t.callback.fn = "effect" -> SyncEffect(t.obj, T)
    [] OTHER -> t

\* The heap after startTask(task) on a fresh module.
RunFresh(task) ==
  Step([guid |-> 1, procs |-> <<newProcess(task, 0)>>, joins |-> <<>>, starts |-> <<>>,
        killOf |-> [o \in Objs |-> 0], calls |-> <<>>, fired |-> <<>>,
        depth |-> 0, maxDepth |-> 0, returns |-> {}], 1)

\* A failing terminal task occurs in t.
RECURSIVE HasFail(_)
HasFail(t) ==
  CASE t.tag \in {"AND_THEN", "ON_ERROR"} -> HasFail(t.task)
    [] t.tag = "BATCH" -> \E i \in 1..Len(t.tasks) : HasFail(t.tasks[i])
    [] OTHER -> t.tag = "FAIL"

\* The process of the scenario is where, and has invoked what, the process of
\* the same task would with its effect calling done(T) inside start.
SameAsSync(T) ==
  LET R == RunFresh(Syncify(scenario, T)) IN
  /\ procs[1].root = R.procs[1].root
  /\ procs[1].stack = R.procs[1].stack
  /\ {calls[i] : i \in 1..Len(calls)} = {R.calls[i] : i \in 1..Len(R.calls)}

C19_NoStepAfterSyncFailure ==
  \A j \in Joins : \A i \in SyncFails(j) :
    (joins[j].resumes # <<>> /\ joins[j].resumes[1] = joins[j].tasks[i]) =>
      \A later \in MembersOf(j) : later > i => StartsOf(ChildPid(j, later)) = {}

====
